---- MODULE Spec2Model ----
(***************************************************************************)
(* Model of app.py: the stock analytics pipeline (range policy, fetch,     *)
(* resampling, indicators, emotion classification, statistics, response    *)
(* assembly) and the HTTP endpoint in front of it.                         *)
(*                                                                         *)
(* Floating point values are records [kind, val]: a finite value carries   *)
(* an integer (prices and volumes in their own unit, ratios in fixed point *)
(* with Scale units per 1.0), NaN and the two infinities are separate      *)
(* kinds, and None is the JSON null.                                       *)
(***************************************************************************)
EXTENDS Integers, Sequences, FiniteSets, TLC

\* ------------------------------------------------------------------ bounds
MaxBars == 3          \* longest series the data source returns
RngMod == 3           \* number of distinct values a random draw can take
MaxChange == 40       \* assign_emotion is called on -20% .. +20% in half percents
MaxPrice == 3         \* close prices 1..MaxPrice for calculate_max_drawdown

\* fixed point: units per 1.0 for ratios (returns, drawdown, volatility)
Scale == 100 * 1000
\* intensities are kept in thousandths
IntensityScale == 10 * 100

\* ------------------------------------------------------------ float values
Fin(n) == [kind |-> "fin", val |-> n]
NaN == [kind |-> "nan", val |-> 0]
PosInf == [kind |-> "inf", val |-> 1]
NegInf == [kind |-> "inf", val |-> -1]
None == [kind |-> "null", val |-> 0]

IsFin(x) == x.kind = "fin"
IsInf(x) == x.kind = "inf"
\* pd.isna / pd.notnull: NaN and None are null, the infinities are not
isna(x) == x.kind \in {"nan", "null"}
notnull(x) == ~isna(x)

Sign(n) == IF n > 0 THEN 1 ELSE IF n < 0 THEN -1 ELSE 0
Abs(n) == IF n < 0 THEN -n ELSE n

\* x < y and x <= y on floats; every comparison with NaN is false
Lt(x, y) ==
    /\ ~isna(x) /\ ~isna(y)
    /\ \/ IsFin(x) /\ IsFin(y) /\ x.val < y.val
       \/ IsFin(x) /\ IsInf(y) /\ y.val = 1
       \/ IsInf(x) /\ x.val = -1 /\ IsFin(y)
       \/ IsInf(x) /\ IsInf(y) /\ x.val < y.val
Le(x, y) == ~isna(x) /\ ~isna(y) /\ (Lt(x, y) \/ x = y)

\* x - y
Sub(x, y) ==
    IF isna(x) \/ isna(y) THEN NaN
    ELSE IF IsFin(x) /\ IsFin(y) THEN Fin(x.val - y.val)
    ELSE IF IsInf(x) /\ IsInf(y) THEN (IF x.val = y.val THEN NaN ELSE x)
    ELSE IF IsInf(x) THEN x
    ELSE (IF y.val = 1 THEN NegInf ELSE PosInf)

\* ---------------------------------------------------------- series helpers
RECURSIVE SumSeq(_)
SumSeq(s) == IF s = <<>> THEN 0 ELSE Head(s) + SumSeq(Tail(s))

\* the non-null elements, in order (Series.dropna, and skipna reductions)
dropna(s) == SelectSeq(s, notnull)

\* Series.max() / Series.min(): skip NaN, NaN when nothing is left
RECURSIVE FoldMax(_, _)
FoldMax(s, acc) ==
    IF s = <<>> THEN acc
    ELSE FoldMax(Tail(s), IF Lt(acc, Head(s)) THEN Head(s) ELSE acc)
RECURSIVE FoldMin(_, _)
FoldMin(s, acc) ==
    IF s = <<>> THEN acc
    ELSE FoldMin(Tail(s), IF Lt(Head(s), acc) THEN Head(s) ELSE acc)
series_max(s) ==
    LET d == dropna(s) IN IF d = <<>> THEN NaN ELSE FoldMax(Tail(d), Head(d))
series_min(s) ==
    LET d == dropna(s) IN IF d = <<>> THEN NaN ELSE FoldMin(Tail(d), Head(d))

\* ------------------------------------------------------------ global tables
EmotionOrder ==
    <<"anger", "depression", "sad", "confusion", "neutral",
      "optimism", "amusement", "excitement", "surprise">>
EMOTION_MAPPING == {EmotionOrder[i] : i \in 1..Len(EmotionOrder)}

\* the whitelist; two of its members stand for all of them
COMPANIES == {"AAPL", "MSFT"}

\* ------------------------------------------------------------ assign_emotion
\* assign_emotion with the anger band open at -8 (a fault C1 must detect)
assign_emotion_open_tail(change) ==
    IF isna(change) THEN "neutral"
    ELSE LET pct == IF IsFin(change) THEN Fin(change.val * 100) ELSE change
             T(p) == Fin(p * Scale)
         IN IF Lt(pct, T(-8)) THEN "anger"
            ELSE IF Lt(T(-8), pct) /\ Le(pct, T(-4)) THEN "depression"
            ELSE IF Lt(T(-4), pct) /\ Le(pct, T(-1)) THEN "sad"
            ELSE IF Lt(T(-1), pct) /\ Le(pct, T(1)) THEN "neutral"
            ELSE IF Lt(T(1), pct) /\ Le(pct, T(4)) THEN "optimism"
            ELSE IF Lt(T(4), pct) /\ Le(pct, T(8)) THEN "amusement"
            ELSE IF Lt(T(8), pct) /\ Le(pct, T(15)) THEN "excitement"
            ELSE IF Lt(T(15), pct) THEN "surprise"
            ELSE "neutral"

assign_emotion(change) ==
    IF isna(change) THEN "neutral"
    ELSE LET pct == IF IsFin(change) THEN Fin(change.val * 100) ELSE change
             T(p) == Fin(p * Scale)
         IN IF Le(pct, T(-8)) THEN "anger"
            ELSE IF Lt(T(-8), pct) /\ Le(pct, T(-4)) THEN "depression"
            ELSE IF Lt(T(-4), pct) /\ Le(pct, T(-1)) THEN "sad"
            ELSE IF Lt(T(-1), pct) /\ Le(pct, T(1)) THEN "neutral"
            ELSE IF Lt(T(1), pct) /\ Le(pct, T(4)) THEN "optimism"
            ELSE IF Lt(T(4), pct) /\ Le(pct, T(8)) THEN "amusement"
            ELSE IF Lt(T(8), pct) /\ Le(pct, T(15)) THEN "excitement"
            ELSE IF Lt(T(15), pct) THEN "surprise"
            ELSE "neutral"

\* ------------------------------------------------------------- data frames
\* A frame is a record of equally long columns; index holds the bar
\* timestamps in days, strictly increasing.

\* what the data source quotes for one bar: a flat bar, a rising bar, and a
\* bar whose close (and so its high) overflowed to +infinity
Quotes ==
    { [Open |-> Fin(100), High |-> Fin(100), Low |-> Fin(100),
       Close |-> Fin(100), Volume |-> Fin(5)],
      [Open |-> Fin(100), High |-> Fin(110), Low |-> Fin(100),
       Close |-> Fin(110), Volume |-> Fin(7)],
      [Open |-> Fin(100), High |-> PosInf, Low |-> Fin(100),
       Close |-> PosInf, Volume |-> Fin(5)] }

\* days between two consecutive bars: the next day, or two weeks later
Gaps == {1, 14}

MkFrame(qs, gs) ==
    [index  |-> [i \in 1..Len(qs) |-> SumSeq(SubSeq(gs, 1, i - 1))],
     Open   |-> [i \in 1..Len(qs) |-> qs[i].Open],
     High   |-> [i \in 1..Len(qs) |-> qs[i].High],
     Low    |-> [i \in 1..Len(qs) |-> qs[i].Low],
     Close  |-> [i \in 1..Len(qs) |-> qs[i].Close],
     Volume |-> [i \in 1..Len(qs) |-> qs[i].Volume]]

FramesOfLen(n) ==
    {MkFrame(qs, gs) : qs \in [1..n -> Quotes], gs \in [1..(n - 1) -> Gaps]}

\* every series the data source can return, the empty one included
Frames == UNION {FramesOfLen(n) : n \in 0..MaxBars}

\* Series.sum(): NaN is skipped, an empty sum is 0
series_sum(s) ==
    LET d == dropna(s)
        infs == {d[i].val : i \in {j \in 1..Len(d) : IsInf(d[j])}}
    IN IF infs = {1, -1} THEN NaN
       ELSE IF infs = {1} THEN PosInf
       ELSE IF infs = {-1} THEN NegInf
       ELSE Fin(SumSeq([i \in 1..Len(d) |-> d[i].val]))

\* 'first' and 'last' of a resampling bucket: first / last non-null value
agg_first(s) == LET d == dropna(s) IN IF d = <<>> THEN NaN ELSE d[1]
agg_last(s) == LET d == dropna(s) IN IF d = <<>> THEN NaN ELSE d[Len(d)]

\* ------------------------------------------------------------ resample_data
WeekDays == 7
MonthDays == 30

\* pandas bins 'W' and 'M' closed and labelled on the right: the bucket of
\* day t is the period (label - width, label]
BucketOf(t, width) == (t + width - 1) \div width

\* the rows of column col whose timestamp lies in bucket b, in order
InBucket(df, col, b, width) ==
    LET pick(i) == BucketOf(df.index[i], width) = b
        RECURSIVE Collect(_)
        Collect(i) ==
            IF i > Len(df.index) THEN <<>>
            ELSE (IF pick(i) THEN <<col[i]>> ELSE <<>>) \o Collect(i + 1)
    IN Collect(1)

\* df.resample(rule).agg(...): one row per period from the first bar's to
\* the last bar's, whether or not a bar falls into it
Resample(df, width) ==
    IF Len(df.index) = 0 THEN df
    ELSE LET lo == BucketOf(df.index[1], width)
             hi == BucketOf(df.index[Len(df.index)], width)
             n == hi - lo + 1
             B(k) == lo + k - 1
         IN [index  |-> [k \in 1..n |-> B(k) * width],
             Open   |-> [k \in 1..n |-> agg_first(InBucket(df, df.Open, B(k), width))],
             High   |-> [k \in 1..n |-> series_max(InBucket(df, df.High, B(k), width))],
             Low    |-> [k \in 1..n |-> series_min(InBucket(df, df.Low, B(k), width))],
             Close  |-> [k \in 1..n |-> agg_last(InBucket(df, df.Close, B(k), width))],
             Volume |-> [k \in 1..n |-> series_sum(InBucket(df, df.Volume, B(k), width))]]

resample_data(df, time_range) ==
    IF time_range \in {"5Y", "10Y"} THEN Resample(df, WeekDays)
    ELSE IF time_range = "MAX" THEN Resample(df, MonthDays)
    ELSE df

\* ------------------------------------------------------ prepare_emotion_data
\* position of an emotion in the iteration order of the EMOTION_MAPPING keys
Pos(emotion) == CHOOSE i \in 1..Len(EmotionOrder) : EmotionOrder[i] = emotion

\* np.random.uniform(low, high) for the generator output u in 0..RngMod-1:
\* a value of [low, high), in thousandths
uniform(low, high, u) == low + ((high - low) * u) \div RngMod

\* the generator output at the k-th draw (k = 0, 1, ...) from state r
Draw(r, k) == (r + k) % RngMod

\* intensity with the inactive draws from [0.0, 0.8) (a fault C10 must detect)
intensity_wide_inactive(emotion, curr_emotion, u) ==
    IF emotion = curr_emotion
    THEN uniform((7 * IntensityScale) \div 10, IntensityScale, u)
    ELSE uniform(0, (8 * IntensityScale) \div 10, u)

\* the body of the inner loop: the intensity appended for one emotion
intensity(emotion, curr_emotion, u) ==
    IF emotion = curr_emotion
    THEN uniform((7 * IntensityScale) \div 10, IntensityScale, u)
    ELSE uniform(0, (2 * IntensityScale) \div 10, u)

\* emotion_data: for each emotion one intensity per bar; the draws are made
\* bar by bar and, within a bar, in the order of the EMOTION_MAPPING keys
prepare_emotion_data(df, r) ==
    [emotion \in EMOTION_MAPPING |->
        [idx \in 1..Len(df.Emotion) |->
            Fin(intensity(emotion, df.Emotion[idx],
                          Draw(r, (idx - 1) * Len(EmotionOrder) + Pos(emotion) - 1)))]]

\* the generator state after prepare_emotion_data on n bars
rng_after(r, n) == (r + n * Len(EmotionOrder)) % RngMod

\* -------------------------------------------------------------- statistics
\* general division: (x * k) / y in floating point
Quot(x, y, k) ==
    IF isna(x) \/ isna(y) THEN NaN
    ELSE IF IsInf(x) /\ IsInf(y) THEN NaN
    ELSE IF IsInf(x) THEN (IF y.val >= 0 THEN x ELSE [x EXCEPT !.val = -x.val])
    ELSE IF IsInf(y) THEN Fin(0)
    ELSE IF y.val = 0
         THEN (IF x.val = 0 THEN NaN ELSE IF x.val > 0 THEN PosInf ELSE NegInf)
    ELSE Fin((x.val * k) \div y.val)

\* largest r in lo..hi with r * r <= n
RECURSIVE IsqrtBetween(_, _, _)
IsqrtBetween(n, lo, hi) ==
    IF lo >= hi THEN lo
    ELSE LET mid == (lo + hi + 1) \div 2
         IN IF mid * mid <= n THEN IsqrtBetween(n, mid, hi)
            ELSE IsqrtBetween(n, lo, mid - 1)
Isqrt(n) == IsqrtBetween(n, 0, 46340)

\* Series.mean(): NaN is skipped
series_mean(s) ==
    LET d == dropna(s)
        total == series_sum(d)
    IN IF d = <<>> THEN NaN
       ELSE IF IsFin(total) THEN Fin(total.val \div Len(d))
       ELSE total

\* Series.std(): sample standard deviation (ddof = 1), NaN is skipped.  The
\* squared deviations are taken at a thousandth, rounded away from zero, so
\* that the result is 0 exactly when all the values are equal.
series_std(s) ==
    LET d == dropna(s)
        n == Len(d)
        mean == series_mean(d)
        dev(i) == LET x == d[i].val - mean.val
                  IN Sign(x) * ((Abs(x) + 99) \div 100)
        squares == SumSeq([i \in 1..n |-> dev(i) * dev(i)])
    IN IF n < 2 THEN NaN
       ELSE IF ~IsFin(mean) THEN NaN
       ELSE Fin(Isqrt((squares * 100) \div (n - 1)) * 10)

\* sqrt(252) in thousandths
Sqrt252x1000 == 15875

\* df['Close'].pct_change(): close / previous close - 1, undefined first.
\* An undefined close gives an undefined return (no forward fill).
pct_change(close) ==
    [i \in 1..Len(close) |->
        IF i = 1 THEN NaN
        ELSE LET q == Quot(close[i], close[i - 1], Scale)
             IN IF IsFin(q) THEN Fin(q.val - Scale) ELSE q]

\* the peak of the whole series at every bar (a fault C9 must detect)
expanding_max_whole_series(close) ==
    [i \in 1..Len(close) |-> series_max(close)]

\* df['Close'].expanding().max(): the running peak
expanding_max(close) ==
    [i \in 1..Len(close) |-> series_max(SubSeq(close, 1, i))]

calculate_max_drawdown(df) ==
    LET rolling_max == expanding_max(df.Close)
        drawdown == [i \in 1..Len(df.Close) |->
                        Quot(Sub(df.Close[i], rolling_max[i]), rolling_max[i], Scale)]
    IN series_min(drawdown)

\* risk_free_rate = 0.02, in fixed point
risk_free_rate == (2 * Scale) \div 100

\* np.sqrt(252) * excess_mean, in thousandths
times_sqrt252(excess_mean) ==
    IF IsFin(excess_mean)
    THEN Fin(Sqrt252x1000 * excess_mean.val) ELSE excess_mean

\* returns is df['Returns'].dropna(); the mean of returns - risk_free_rate/252
\* is the mean of returns less that constant
sharpe_of(returns) ==
    Quot(times_sqrt252(Sub(series_mean(returns), Fin(risk_free_rate \div 252))),
         series_std(returns), 1)

calculate_sharpe_ratio(df) == sharpe_of(dropna(df.Returns))

\* market_returns is None at the only call
calculate_beta(df) == Fin(Scale)

\* stdev * np.sqrt(252)
annualized(stdev) ==
    IF IsFin(stdev) THEN Fin((stdev.val * Sqrt252x1000) \div 1000) ELSE stdev

calculate_additional_statistics(df) ==
    [all_time_high    |-> series_max(df.High),
     all_time_low     |-> series_min(df.Low),
     avg_daily_volume |-> series_mean(df.Volume),
     volatility       |-> annualized(series_std(df.Returns)),
     max_drawdown     |-> calculate_max_drawdown(df),
     sharpe_ratio     |-> calculate_sharpe_ratio(df),
     beta             |-> calculate_beta(df),
     trading_days     |-> Fin(Len(df.index))]

\* ------------------------------------------- calculate_technical_indicators
\* The ta library leaves an indicator undefined until its window is full:
\* RSI(14), MACD(12, 26) with signal 9, Bollinger(20).
RSI_LOOKBACK == 13
MACD_LOOKBACK == 25
MACD_SIGNAL_LOOKBACK == 33
BB_LOOKBACK == 19

\* an indicator column: NaN during the warm-up; past it the value the
\* library computes, of which the model keeps only that it is finite
indicator(close, lookback) ==
    [i \in 1..Len(close) |-> IF i <= lookback THEN NaN ELSE Fin(0)]

calculate_technical_indicators(df, time_range) ==
    [index  |-> df.index, Open |-> df.Open, High |-> df.High, Low |-> df.Low,
     Close  |-> df.Close, Volume |-> df.Volume,
     RSI         |-> indicator(df.Close, RSI_LOOKBACK),
     MACD        |-> indicator(df.Close, MACD_LOOKBACK),
     MACD_Signal |-> indicator(df.Close, MACD_SIGNAL_LOOKBACK),
     MACD_Hist   |-> indicator(df.Close, MACD_SIGNAL_LOOKBACK),
     BB_Upper    |-> indicator(df.Close, BB_LOOKBACK),
     BB_Middle   |-> indicator(df.Close, BB_LOOKBACK),
     BB_Lower    |-> indicator(df.Close, BB_LOOKBACK)]

\* ------------------------------------------------------- process_stock_data
time_range_config ==
    [r \in {"1D", "1W", "2W", "1M", "3M", "6M", "1Y", "2Y", "5Y", "10Y",
            "MAX", "YTD"} |->
        CASE r = "1D"  -> [days |-> 1,    interval |-> "1m",  start_date |-> "days"]
          [] r = "1W"  -> [days |-> 7,    interval |-> "5m",  start_date |-> "days"]
          [] r = "2W"  -> [days |-> 14,   interval |-> "15m", start_date |-> "days"]
          [] r = "1M"  -> [days |-> 30,   interval |-> "30m", start_date |-> "days"]
          [] r = "3M"  -> [days |-> 90,   interval |-> "1h",  start_date |-> "days"]
          [] r = "6M"  -> [days |-> 180,  interval |-> "1d",  start_date |-> "days"]
          [] r = "1Y"  -> [days |-> 365,  interval |-> "1d",  start_date |-> "days"]
          [] r = "2Y"  -> [days |-> 730,  interval |-> "1d",  start_date |-> "days"]
          [] r = "5Y"  -> [days |-> 1825, interval |-> "1wk", start_date |-> "days"]
          [] r = "10Y" -> [days |-> 3650, interval |-> "1wk", start_date |-> "days"]
          [] r = "MAX" -> [days |-> 0,    interval |-> "1mo", start_date |-> "none"]
          [] r = "YTD" -> [days |-> 0,    interval |-> "1d",  start_date |-> "jan1"]]

\* what dict.get returns for a key that is not in the table
NoConfig == [days |-> 0, interval |-> "", start_date |-> ""]

\* a lookup that falls back to the default range (a fault C3 must detect)
range_config_with_default(time_range) ==
    IF time_range \in DOMAIN time_range_config
    THEN time_range_config[time_range]
    ELSE time_range_config["1M"]

\* time_range_config.get(time_range)
range_config_get(time_range) ==
    IF time_range \in DOMAIN time_range_config
    THEN time_range_config[time_range]
    ELSE NoConfig

\* an empty check that never fires (a fault C4 must detect)
df_empty_never(df) == FALSE

\* df.empty
df_empty(df) == Len(df.index) = 0

\* the statistics ranges with 1Y left out (a fault C5 must detect)
stats_ranges_without_1Y == {"2Y", "5Y", "10Y", "MAX"}

\* the ranges the additional statistics are computed for
stats_ranges == {"1Y", "2Y", "5Y", "10Y", "MAX"}

\* clean_nan on a list: None where pd.notnull is false, float(x) elsewhere
clean_nan(data) ==
    [i \in 1..Len(data) |-> IF notnull(data[i]) THEN data[i] ELSE None]

\* df['Emotion'].value_counts().to_dict()
value_counts(col) ==
    [e \in {col[i] : i \in 1..Len(col)} |->
        Cardinality({i \in 1..Len(col) : col[i] = e})]

\* the dict of a failure, and what the function leaves behind with it
Failure(error, nfetch, stages, r) ==
    [result  |-> [success |-> FALSE, error |-> error],
     fetches |-> nfetch, steps |-> stages, rng |-> r]

\* df['Returns'] = df['Close'].pct_change()
\* df['Emotion'] = df['Returns'].apply(assign_emotion)
emotion_column(returns) ==
    [i \in 1..Len(returns) |-> assign_emotion(returns[i])]

with_returns_and_emotion(df) ==
    [c \in DOMAIN df \cup {"Returns", "Emotion"} |->
        IF c = "Returns" THEN pct_change(df.Close)
        ELSE IF c = "Emotion" THEN emotion_column(pct_change(df.Close))
        ELSE df[c]]

volume_colors(df) ==
    [i \in 1..Len(df.Close) |->
        IF Lt(df.Open[i], df.Close[i]) THEN "#26a69a" ELSE "#ef5350"]

\* df.index.strftime(date_format).tolist()
dates(df, time_range) ==
    [i \in 1..Len(df.index) |->
        [format |-> IF time_range \in {"1D", "1W", "2W", "1M"}
                    THEN "%Y-%m-%d %H:%M:%S" ELSE "%Y-%m-%d",
         day |-> df.index[i]]]

additional_stats(df, time_range) ==
    IF time_range \in stats_ranges
    THEN calculate_additional_statistics(df)
    ELSE <<>>

\* response_data, built from the frame with all its columns
response_data(df, time_range, r) ==
    [success |-> TRUE,
     prices |-> [dates |-> dates(df, time_range),
                 open  |-> clean_nan(df.Open),
                 high  |-> clean_nan(df.High),
                 low   |-> clean_nan(df.Low),
                 close |-> clean_nan(df.Close)],
     emotions |-> [dates |-> dates(df, time_range),
                   emotionData |->
                       [k \in EMOTION_MAPPING |->
                           clean_nan(prepare_emotion_data(df, r)[k])]],
     volume |-> [dates  |-> dates(df, time_range),
                 values |-> clean_nan(df.Volume),
                 colors |-> volume_colors(df)],
     indicators |->
         [dates |-> dates(df, time_range),
          rsi   |-> clean_nan(df.RSI),
          macd  |-> [line      |-> clean_nan(df.MACD),
                     signal    |-> clean_nan(df.MACD_Signal),
                     histogram |-> clean_nan(df.MACD_Hist)],
          bollinger |-> [upper  |-> clean_nan(df.BB_Upper),
                         middle |-> clean_nan(df.BB_Middle),
                         lower  |-> clean_nan(df.BB_Lower)]],
     emotion_distribution |-> value_counts(df.Emotion),
     statistics |-> additional_stats(df, time_range)]

\* the stages a call runs once the indicators are computed
StagesAfterIndicators(time_range) ==
    <<"emotions", "emotion_data">>
        \o (IF time_range \in stats_ranges THEN <<"statistics">> ELSE <<>>)
        \o <<"assemble">>

\* The statements after the resampling, on the frame df; stages are the
\* stages run so far.  env.fault = "ta" is the indicator library raising.
AfterResample(df, time_range, env, stages, r) ==
    IF env.fault = "ta"
    THEN Failure(<<"exception", "ta">>, 1, stages \o <<"indicators">>, r)
    ELSE [result  |-> response_data(
                          with_returns_and_emotion(
                              calculate_technical_indicators(df, time_range)),
                          time_range, r),
          fetches |-> 1,
          steps   |-> stages \o <<"indicators">>
                         \o StagesAfterIndicators(time_range),
          rng     |-> rng_after(r, Len(df.index))]

\* The statements after the empty check, on the frame the source returned
Pipeline(company, time_range, env, r) ==
    IF time_range \in {"5Y", "10Y", "MAX"}
    THEN AfterResample(resample_data(env.df, time_range), time_range, env,
                       <<"fetch", "resample">>, r)
    ELSE AfterResample(env.df, time_range, env, <<"fetch">>, r)

\* env is what the collaborators do during this call: env.fault = "fetch" is
\* stock.history raising, otherwise it returns env.df
process_stock_data(company, time_range, env, r) ==
    IF range_config_get(time_range) = NoConfig
    THEN Failure(<<"Invalid time range: ", time_range>>, 0, <<>>, r)
    ELSE IF env.fault = "fetch"
    THEN Failure(<<"exception", "history">>, 1, <<"fetch">>, r)
    ELSE IF df_empty(env.df)
    THEN Failure(<<"No data available for ", company,
                   " in the specified time range">>, 1, <<"fetch">>, r)
    ELSE Pipeline(company, time_range, env, r)

\* ----------------------------------------------------------- get_stock_data
valid_ranges ==
    {"1D", "1W", "2W", "1M", "3M", "6M", "1Y", "2Y", "5Y", "10Y", "YTD", "MAX"}

\* query is the range parameter of the request, NoRange when it is absent
NoRange == "<absent>"

\* request.args.get('range', '1M')
request_range(query) == IF query = NoRange THEN "1M" ELSE query

\* the two validation failures of the handler
Reject(error, r) ==
    [result |-> [success |-> FALSE, error |-> error],
     status |-> 400, fetches |-> 0, steps |-> <<>>, rng |-> r]

\* the reply for what process_stock_data returned: 400 unless it succeeded
Reply(p) ==
    [result |-> p.result, status |-> IF p.result.success THEN 200 ELSE 400,
     fetches |-> p.fetches, steps |-> p.steps, rng |-> p.rng]

\* request.args.get and jsonify do not raise, so the handler's own except
\* clause (status 500) is never entered.
get_stock_data(company, query, env, r) ==
    IF company \notin COMPANIES
    THEN Reject(<<"Invalid company symbol">>, r)
    ELSE IF request_range(query) \notin valid_ranges
    THEN Reject(<<"Invalid time range. Must be one of: ", valid_ranges>>, r)
    ELSE Reply(process_stock_data(company, request_range(query), env, r))

\* the range codes a caller sends: the twelve of the policy table and one
\* that is not in it
RangeCodes ==
    {"1D", "1W", "2W", "1M", "3M", "6M", "1Y", "2Y", "5Y", "10Y", "YTD", "MAX",
     "XYZ"}

\* the data source was not asked
NoSource == [fault |-> "unused", df |-> MkFrame(<<>>, <<>>)]

\* ----------------------------------------------------------------- state
VARIABLES
    rng,        \* state of the process-wide numpy random generator
    op,         \* the operation that ran last ("none" before the first call)
    args,       \* its arguments
    result,     \* the value it returned
    status,     \* HTTP status of the reply (0 for a plain function call)
    fetches,    \* calls of stock.history made by that operation
    source,     \* what the data source did when it was asked
    steps       \* pipeline stages that operation ran, in order

vars == <<rng, op, args, result, status, fetches, source, steps>>

Init ==
    /\ rng \in 0..(RngMod - 1)
    /\ op = "none"
    /\ args = <<>>
    /\ result = None
    /\ status = 0
    /\ fetches = 0
    /\ source = NoSource
    /\ steps = <<>>

\* the returns assign_emotion is called on: a grid of half percents, and the
\* three non-finite floats
Changes ==
    {Fin(k * (Scale \div 200)) : k \in (-MaxChange)..MaxChange}
        \cup {NaN, PosInf, NegInf}

AssignEmotion ==
    /\ op = "none"
    /\ \E change \in Changes :
           /\ op' = "assign_emotion"
           /\ args' = [change |-> change]
           /\ result' = assign_emotion(change)
           /\ status' = 0 /\ fetches' = 0 /\ source' = NoSource /\ steps' = <<>>
           /\ UNCHANGED rng

ResampleData ==
    /\ op = "none"
    /\ \E df \in Frames, time_range \in RangeCodes :
           /\ op' = "resample_data"
           /\ args' = [df |-> df, time_range |-> time_range]
           /\ result' = resample_data(df, time_range)
           /\ status' = 0 /\ fetches' = 0 /\ source' = NoSource /\ steps' = <<>>
           /\ UNCHANGED rng

\* the Emotion columns prepare_emotion_data is called on
EmotionColumns == UNION {[1..n -> EMOTION_MAPPING] : n \in 1..MaxBars}

PrepareEmotionData ==
    /\ op = "none"
    /\ \E col \in EmotionColumns :
           /\ op' = "prepare_emotion_data"
           /\ args' = [df |-> [Emotion |-> col]]
           /\ result' = prepare_emotion_data([Emotion |-> col], rng)
           /\ rng' = rng_after(rng, Len(col))
           /\ status' = 0 /\ fetches' = 0 /\ source' = NoSource /\ steps' = <<>>

\* the close series calculate_max_drawdown is called on: positive prices
CloseColumns ==
    UNION {[1..n -> {Fin(c) : c \in 1..MaxPrice}] : n \in 1..MaxBars}

CalculateMaxDrawdown ==
    /\ op = "none"
    /\ \E close \in CloseColumns :
           /\ op' = "calculate_max_drawdown"
           /\ args' = [df |-> [Close |-> close]]
           /\ result' = calculate_max_drawdown([Close |-> close])
           /\ status' = 0 /\ fetches' = 0 /\ source' = NoSource /\ steps' = <<>>
           /\ UNCHANGED rng

\* the symbols a caller sends: one of the whitelist and one that is not
Symbols == {"AAPL", "ZZZZ"}

\* what the collaborators can do during one call: stock.history raises, or
\* it returns a series; the indicator library raises on a one-bar series
Envs ==
    {[fault |-> "fetch", df |-> MkFrame(<<>>, <<>>)]}
        \cup {[fault |-> "none", df |-> df] : df \in Frames}
        \cup {[fault |-> "ta", df |-> df] : df \in FramesOfLen(1)}

\* the state after a call that went through process_stock_data
Called(name, arguments, env, out, code) ==
    /\ op' = name
    /\ args' = arguments
    /\ result' = out.result
    /\ status' = code
    /\ fetches' = out.fetches
    /\ source' = IF out.fetches > 0 THEN env ELSE NoSource
    /\ steps' = out.steps
    /\ rng' = out.rng

ProcessStockData ==
    /\ op = "none"
    /\ \E company \in COMPANIES \cap Symbols, time_range \in RangeCodes,
          env \in Envs :
           \E p \in {process_stock_data(company, time_range, env, rng)} :
               Called("process_stock_data",
                      [company |-> company, time_range |-> time_range],
                      env, p, 0)

GetStockData ==
    /\ op = "none"
    /\ \E company \in Symbols, query \in RangeCodes \cup {NoRange},
          env \in Envs :
           \E g \in {get_stock_data(company, query, env, rng)} :
               Called("get_stock_data",
                      [company |-> company, query |-> query],
                      env, g, g.status)

\* the caller has its answer; nothing of the call is kept but the state of
\* the random generator
Return ==
    /\ op # "none"
    /\ op' = "none"
    /\ args' = <<>>
    /\ result' = None
    /\ status' = 0 /\ fetches' = 0 /\ source' = NoSource /\ steps' = <<>>
    /\ UNCHANGED rng

Next ==
    \/ AssignEmotion
    \/ ResampleData
    \/ PrepareEmotionData
    \/ CalculateMaxDrawdown
    \/ ProcessStockData
    \/ GetStockData
    \/ Return

Spec == Init /\ [][Next]_vars

\* ================================================================== claims
\* the range the pipeline works with in the last call
RequestedRange ==
    IF op = "get_stock_data"
    THEN (IF args.query = "<absent>" THEN "1M" ELSE args.query)
    ELSE args.time_range

\* the last call went through process_stock_data and produced a response
Responded ==
    /\ op \in {"process_stock_data", "get_stock_data"}
    /\ result.success

\* C1: assign_emotion maps a return to exactly one label, the one of the
\* percent band it lies in: <= -8 anger, (-8,-4] depression, (-4,-1] sad,
\* (-1,1] neutral, (1,4] optimism, (4,8] amusement, (8,15] excitement,
\* > 15 surprise, and an undefined return to neutral; a boundary value
\* belongs to the band closed on it.
C1_EmotionBands ==
    op = "assign_emotion" =>
        LET c == args.change
            p == c.val * 100
        IN /\ c.kind = "nan" => result = "neutral"
           /\ c = NegInf => result = "anger"
           /\ c = PosInf => result = "surprise"
           /\ c.kind = "fin" =>
                /\ result = "anger" <=> p <= -8 * Scale
                /\ result = "depression" <=> (-8 * Scale < p /\ p <= -4 * Scale)
                /\ result = "sad" <=> (-4 * Scale < p /\ p <= -1 * Scale)
                /\ result = "neutral" <=> (-1 * Scale < p /\ p <= 1 * Scale)
                /\ result = "optimism" <=> (1 * Scale < p /\ p <= 4 * Scale)
                /\ result = "amusement" <=> (4 * Scale < p /\ p <= 8 * Scale)
                /\ result = "excitement" <=> (8 * Scale < p /\ p <= 15 * Scale)
                /\ result = "surprise" <=> 15 * Scale < p
                /\ result # "confusion"

\* a return of exactly -8% was classified, as anger
C1_Witness ==
    /\ op = "assign_emotion"
    /\ args.change = Fin((-8 * Scale) \div 100)
    /\ result = "anger"

\* every numeric array of a response
ResponseArrays(r) ==
    {r.prices.open, r.prices.high, r.prices.low, r.prices.close,
     r.volume.values, r.indicators.rsi,
     r.indicators.macd.line, r.indicators.macd.signal,
     r.indicators.macd.histogram,
     r.indicators.bollinger.upper, r.indicators.bollinger.middle,
     r.indicators.bollinger.lower}
        \cup {r.emotions.emotionData[k] : k \in DOMAIN r.emotions.emotionData}

\* C2: no numeric array of a successful response holds a NaN or an infinite
\* value: every element is a finite number or null, and a non-finite close
\* of the source is null in the response (where the series is not
\* resampled, so that the bars correspond).
C2_NoNonFiniteInArrays ==
    Responded =>
        /\ \A a \in ResponseArrays(result) :
              \A i \in 1..Len(a) : a[i].kind \in {"fin", "null"}
        /\ RequestedRange \notin {"5Y", "10Y", "MAX"} =>
              \A i \in 1..Len(source.df.Close) :
                  source.df.Close[i].kind # "fin"
                      => result.prices.close[i] = None

\* the twelve range codes of the specification
RecognisedCodes ==
    {"1D", "1W", "2W", "1M", "3M", "6M", "1Y", "2Y", "5Y", "10Y", "YTD", "MAX"}

\* C3: a request with a symbol outside the whitelist or an unrecognised range
\* code fails as invalid input without the data source being asked, through
\* the endpoint and for an unrecognised range in a direct call of
\* process_stock_data; no request asks the data source more than once.
C3_NoFetchOnInvalidInput ==
    /\ (op = "get_stock_data"
            /\ (args.company \notin {"AAPL", "MSFT"}
                    \/ (args.query # "<absent>"
                            /\ args.query \notin RecognisedCodes)))
        => /\ status = 400
           /\ ~result.success
           /\ fetches = 0
           /\ source = NoSource
    /\ (op = "process_stock_data" /\ args.time_range \notin RecognisedCodes)
        => /\ ~result.success
           /\ result.error = <<"Invalid time range: ", args.time_range>>
           /\ fetches = 0
           /\ source = NoSource
    /\ fetches <= 1

\* process_stock_data was called with the unrecognised code and refused it
C3_Witness ==
    /\ op = "process_stock_data"
    /\ args.time_range = "XYZ"
    /\ ~result.success
    /\ fetches = 0

\* C4: when the data source returns an empty series, process_stock_data
\* returns a failure whose message names the symbol, runs nothing after the
\* fetch, and the failure is not the one of the source raising.
C4_EmptySeriesIsNoData ==
    (/\ op \in {"process_stock_data", "get_stock_data"}
     /\ fetches = 1
     /\ source.fault # "fetch"
     /\ Len(source.df.index) = 0)
        => /\ ~result.success
           /\ result.error = <<"No data available for ", args.company,
                               " in the specified time range">>
           /\ result.error[1] # "exception"
           /\ steps = <<"fetch">>

\* the source was asked, returned nothing, and the call failed
C4_Witness ==
    /\ op = "process_stock_data"
    /\ fetches = 1
    /\ source.fault = "none"
    /\ Len(source.df.index) = 0
    /\ ~result.success

StatisticsKeys ==
    {"all_time_high", "all_time_low", "avg_daily_volume", "volatility",
     "max_drawdown", "sharpe_ratio", "beta", "trading_days"}

\* C5: in a successful response the statistics bundle has its eight entries
\* when the range is 1Y, 2Y, 5Y, 10Y or MAX and is empty for every other
\* range.
C5_StatisticsOnlyForLongRanges ==
    Responded =>
        IF RequestedRange \in {"1Y", "2Y", "5Y", "10Y", "MAX"}
        THEN DOMAIN result.statistics = StatisticsKeys
        ELSE DOMAIN result.statistics = {}

\* a one-year request was answered with statistics
C5_Witness ==
    /\ Responded
    /\ RequestedRange = "1Y"
    /\ DOMAIN result.statistics = StatisticsKeys

\* the return series the statistics of the last call were computed on
StatsReturns ==
    pct_change(resample_data(source.df, RequestedRange).Close)

\* C6: for a long range whose returns have zero standard deviation, the
\* Sharpe ratio appears in the statistics of the response as null.
C6_ZeroDeviationSharpeIsNull ==
    (/\ Responded
     /\ RequestedRange \in {"1Y", "2Y", "5Y", "10Y", "MAX"}
     /\ series_std(StatsReturns) = Fin(0))
        => result.statistics.sharpe_ratio = None

\* C7: a failure during the indicator or statistics computation for a valid
\* symbol and range is not reported with the status of an invalid-input
\* rejection (400).
C7_ComputationFailureIsNotClientError ==
    (/\ op = "get_stock_data"
     /\ fetches = 1
     /\ source.fault = "ta")
        => status # 400

\* C8: for 5Y, 10Y (weekly) and MAX (monthly) every output row of
\* resample_data aggregates at least one input bar, so there are no more
\* output rows than input bars; for every other range the series is
\* returned unchanged.
C8_NoRowWithoutBars ==
    op = "resample_data" =>
        LET df == args.df
            width == IF args.time_range = "MAX" THEN 30 ELSE 7
        IN IF args.time_range \in {"5Y", "10Y", "MAX"}
           THEN /\ \A k \in 1..Len(result.index) :
                      \E i \in 1..Len(df.index) :
                          /\ result.index[k] - width < df.index[i]
                          /\ df.index[i] <= result.index[k]
                /\ Len(result.index) <= Len(df.index)
           ELSE result = df

\* C9: on positive close prices calculate_max_drawdown returns the minimum
\* over the bars of (close - running peak) / running peak; it is never
\* positive, and it is 0 exactly when the close never falls.
C9_MaxDrawdown ==
    op = "calculate_max_drawdown" =>
        LET close == args.df.Close
            n == Len(close)
            peak(i) == CHOOSE m \in {close[j].val : j \in 1..i} :
                           \A j \in 1..i : close[j].val <= m
            dd(i) == ((close[i].val - peak(i)) * Scale) \div peak(i)
        IN /\ result.kind = "fin"
           /\ result.val <= 0
           /\ \E i \in 1..n : result.val = dd(i)
           /\ \A i \in 1..n : result.val <= dd(i)
           /\ result.val = 0 <=>
                  \A i \in 1..(n - 1) : close[i].val <= close[i + 1].val

\* a series that rose and then fell below its peak has a negative drawdown
C9_Witness ==
    /\ op = "calculate_max_drawdown"
    /\ Len(args.df.Close) = 3
    /\ args.df.Close[1].val < args.df.Close[2].val
    /\ args.df.Close[3].val < args.df.Close[2].val
    /\ result.val < 0

\* C10: the intensity matrix has one value per bar for each of the nine
\* emotions; at every bar the bar's emotion has an intensity in [0.7, 1.0]
\* and each other emotion one in [0.0, 0.2], so the active intensity is
\* strictly the largest.
C10_IntensityBands ==
    op = "prepare_emotion_data" =>
        LET labels == args.df.Emotion
            high == (7 * IntensityScale) \div 10
            low == (2 * IntensityScale) \div 10
        IN /\ DOMAIN result = {"anger", "depression", "sad", "confusion",
                               "neutral", "optimism", "amusement",
                               "excitement", "surprise"}
           /\ \A e \in DOMAIN result : Len(result[e]) = Len(labels)
           /\ \A i \in 1..Len(labels) :
                /\ result[labels[i]][i].kind = "fin"
                /\ result[labels[i]][i].val >= high
                /\ result[labels[i]][i].val <= IntensityScale
                /\ \A e \in DOMAIN result \ {labels[i]} :
                      /\ result[e][i].kind = "fin"
                      /\ result[e][i].val >= 0
                      /\ result[e][i].val <= low
                      /\ result[e][i].val < result[labels[i]][i].val

\* a bar whose active emotion got the lowest draw while another emotion got
\* the highest one
C10_Witness ==
    /\ op = "prepare_emotion_data"
    /\ \E i \in 1..Len(args.df.Emotion) :
          /\ result[args.df.Emotion[i]][i].val = (7 * IntensityScale) \div 10
          /\ \E e \in DOMAIN result \ {args.df.Emotion[i]} :
                result[e][i].val = uniform(0, (2 * IntensityScale) \div 10,
                                           RngMod - 1)
====
